---- MODULE Spec2Model ----
(***************************************************************************)
(* Model of the room-scoped real-time chat of app/chat_router.py:          *)
(* the ConnectionManager registry, the per-connection websocket_endpoint   *)
(* loop with its send_message / mark_read actions, broadcast_to_room, and  *)
(* the create-or-get room and message history endpoints, over the users /  *)
(* chat_rooms / chat_messages tables of app/models.py.                     *)
(*                                                                         *)
(* Scheduling: the application runs on one event loop (main.py,            *)
(* uvicorn.run(app)).  A coroutine runs without interruption up to its     *)
(* next suspending await.  The handler suspends in receive_json() and in   *)
(* send_json(); the database calls are synchronous.  Hence one action per  *)
(* run of a handler between two suspensions.                               *)
(***************************************************************************)
EXTENDS Integers, Sequences, FiniteSets, TLC

\* ---------------------------------------------------------------- bounds
\* Number of websocket connections opened during a run.
MaxConns == 2
\* Number of rows the chat_messages table may grow to.
MaxMessages == 2
\* Highest reading of the clock.
MaxClock == 2

\* ------------------------------------------------------------- constants
ROLE_TEKNISI == "teknisi"
ROLE_ADMIN_REGIONAL == "admin_regional"
ROLE_ADMIN == "admin"

\* Clock readings per second: strftime("%Y-%m-%d %H:%M:%S") drops what is
\* below the second.
TicksPerSecond == 2

\* Absence of a value: Python None / SQL NULL.
None == "None"
\* No entry in active_connections (channels are numbered from 1).
NoConn == 0
\* No chat_rooms row found (row ids start at 1).
NoRoom == 0

\* Connection (channel) handles.
Conns == 1..MaxConns

\* Usernames given in the path of /ws/chat/{username}.  The endpoint accepts
\* any string; "eve" is an identity that is a member of no room.
ConnUsers == {"tek1", "reg1", "eve"}

\* The users table (rows relevant to room resolution).
UsersTable ==
    << [username |-> "reg1", email |-> "reg1@x", role |-> ROLE_ADMIN_REGIONAL,
         area |-> "Jakarta", region |-> "WEST"],
       [username |-> "tek1", email |-> "tek1@x", role |-> ROLE_TEKNISI,
         area |-> "Jakarta", region |-> "WEST"],
       [username |-> "tek2", email |-> "tek2@x", role |-> ROLE_TEKNISI,
         area |-> "Bandung", region |-> "EAST"],
       [username |-> "reg2", email |-> "reg2@x", role |-> ROLE_ADMIN_REGIONAL,
         area |-> "Bandung", region |-> "EAST"],
       [username |-> "adm1", email |-> "adm1@x", role |-> ROLE_ADMIN,
         area |-> None, region |-> None] >>

\* Users tables room resolution is examined on: three rows in id order, each
\* with any role, and an area and a region that may be NULL.
Roles == {ROLE_TEKNISI, ROLE_ADMIN_REGIONAL, ROLE_ADMIN}
Areas == {"Jakarta", "Bandung", None}
Regions == {"WEST", "EAST", None}
Directories ==
    { << [username |-> "reg2", email |-> "reg2@x", role |-> r1, area |-> a1, region |-> g1],
         [username |-> "reg1", email |-> "reg1@x", role |-> r2, area |-> a2, region |-> g2],
         [username |-> "tek1", email |-> "tek1@x", role |-> r3, area |-> a3, region |-> g3] >> :
        r1 \in Roles, r2 \in Roles, r3 \in Roles,
        a1 \in Areas, a2 \in Areas, a3 \in Areas,
        g1 \in Regions, g2 \in Regions, g3 \in Regions }

\* teknisi_username form values of POST /chat/rooms: usernames of the table
\* (a teknisi or not, according to the role of the row).
TeknisiInputs == {"tek1", "reg1"}

\* Usernames of the authenticated callers of the HTTP requests.
CallerInputs == {"adm1", "tek2", "reg1"}

\* The users an admin registers: a new user, and a new username with the
\* email of tek1.
RegisterInputs ==
    { [username |-> "reg9", email |-> "reg9@x", role |-> ROLE_ADMIN_REGIONAL,
       area |-> "Jakarta", region |-> "WEST"],
      [username |-> "reg8", email |-> "tek1@x", role |-> ROLE_ADMIN_REGIONAL,
       area |-> "Jakarta", region |-> "WEST"] }
\* The Excel files an admin uploads: a row whose username is taken followed by
\* the new user, and a new row followed by a new username with the email of reg1.
UploadInputs ==
    { << [username |-> "tek1", email |-> "tek1@x", role |-> ROLE_ADMIN,
          area |-> None, region |-> None],
         [username |-> "reg9", email |-> "reg9@x", role |-> ROLE_ADMIN_REGIONAL,
          area |-> "Jakarta", region |-> "WEST"] >>,
      << [username |-> "tek9", email |-> "tek9@x", role |-> ROLE_TEKNISI,
          area |-> "Jakarta", region |-> "WEST"],
         [username |-> "reg8", email |-> "reg1@x", role |-> ROLE_ADMIN_REGIONAL,
          area |-> "Jakarta", region |-> "WEST"] >> }

\* Inputs of the frames.  Room 1 does not exist until it is created.
RoomIdInputs == {1}
\* Room ids of the history requests: room 2 is never created.
HistoryRoomIds == {1, 2}
RoleInputs == {ROLE_TEKNISI, ROLE_ADMIN_REGIONAL}
Bodies == {"a"}

\* skip and limit of GET /chat/rooms/{room_id}/messages; 0 and 50 are the defaults.
SkipInputs == {0, 1}
LimitInputs == {1, 50}

\* JSON objects received as frames, as functions from their keys.
SendFrames ==
    { [action |-> "send_message", room_id |-> r, sender_role |-> s, message |-> b] :
        r \in RoomIdInputs, s \in RoleInputs, b \in Bodies }
MarkFrames ==
    { [action |-> "mark_read", room_id |-> r, role |-> s] :
        r \in RoomIdInputs, s \in RoleInputs }
\* Frames lacking a key their action reads.
IncompleteFrames ==
    { [action |-> "send_message", sender_role |-> ROLE_TEKNISI, message |-> "a"],
      [action |-> "send_message", room_id |-> 1, message |-> "a"],
      [action |-> "send_message", room_id |-> 1, sender_role |-> ROLE_TEKNISI],
      [action |-> "mark_read", role |-> ROLE_TEKNISI],
      [action |-> "mark_read", room_id |-> 1] }
\* Objects whose action is neither send_message nor mark_read, or absent.
OtherFrames ==
    { [action |-> "typing", room_id |-> 1],
      [room_id |-> 1, message |-> "a"] }
Frames == SendFrames \cup MarkFrames \cup IncompleteFrames \cup OtherFrames

\* ----------------------------------------------------------------- state
VARIABLES
    active_connections, \* ConnectionManager.active_connections: username -> channel
    handler,            \* per connection: "Connecting", "Open", "Closed"
    owner,              \* per connection: the username of its path
    transport,          \* per connection: TRUE while the peer keeps the socket open
    bcast,              \* per connection: the broadcast it is suspended in
    inbox,              \* per connection: the events sent on its channel, in order
    rooms,              \* chat_rooms table, row id = index
    messages,           \* chat_messages table, row id = index
    users,              \* users table, row id = index
    clock               \* the reading datetime.now() returns

vars == << active_connections, handler, owner, transport, bcast, inbox,
           rooms, messages, users, clock >>


\* Every username that may key the registry: connected identities and users.
AllUsers == ConnUsers \cup { UsersTable[i].username : i \in DOMAIN UsersTable }
                     \cup {"reg2", "reg9"}

\* No users-table row (.first() returned None), and no event.
NoUser == [username |-> None, email |-> None, role |-> None, area |-> None, region |-> None]
NoEvent == [type |-> None, id |-> 0, room_id |-> 0, sender_username |-> None]
NoBroadcast == [targets |-> << >>, ev |-> NoEvent, raises |-> None]

\* ------------------------------------------------- ConnectionManager
\* connect that keeps an entry already present (first connect wins).
connect_KeepFirst(reg, username, websocket) ==
    IF reg[username] # NoConn THEN reg ELSE [reg EXCEPT ![username] = websocket]

\* connect: active_connections[username] = websocket
connect(reg, username, websocket) == [reg EXCEPT ![username] = websocket]

\* disconnect that empties the registry.
disconnect_Clear(reg, username) == [u \in DOMAIN reg |-> NoConn]

\* disconnect: if username in active_connections: del active_connections[username]
disconnect(reg, username) ==
    IF reg[username] # NoConn THEN [reg EXCEPT ![username] = NoConn] ELSE reg

\* send_json that never raises: the event lands on a closed socket too.
send_json_ok_Always(websocket) == websocket \in Conns

\* send_json on a channel: raises once the peer has closed the socket.
send_json_ok(websocket) == transport[websocket]

\* send_message that drops the entry after a send that worked, too.
send_message_Pop(reg, inb, username, message) ==
    IF reg[username] = NoConn
    THEN [inbox |-> inb, awaited |-> FALSE, raises |-> None]
    ELSE IF send_json_ok(reg[username])
         THEN [inbox |-> [inb EXCEPT ![reg[username]] = Append(@, message)],
               awaited |-> TRUE, raises |-> username]
         ELSE [inbox |-> inb, awaited |-> TRUE, raises |-> username]

\* send_message that swallows the exception without disconnect(username).
send_message_NoDisconnect(reg, inb, username, message) ==
    IF reg[username] = NoConn
    THEN [inbox |-> inb, awaited |-> FALSE, raises |-> None]
    ELSE IF send_json_ok(reg[username])
         THEN [inbox |-> [inb EXCEPT ![reg[username]] = Append(@, message)],
               awaited |-> TRUE, raises |-> None]
         ELSE [inbox |-> inb, awaited |-> TRUE, raises |-> None]

\* send_message(username, message) up to its suspension.  No entry: nothing,
\* and no suspension.  Otherwise send_json is called on the websocket the
\* registry holds and the coroutine is suspended in it (awaited): the event
\* is written when the peer keeps the socket open; on a socket the peer has
\* closed nothing is written and the await returns by raising, and raises
\* names the username the except clause then disconnects.
send_message(reg, inb, username, message) ==
    IF reg[username] = NoConn
    THEN [inbox |-> inb, awaited |-> FALSE, raises |-> None]
    ELSE IF send_json_ok(reg[username])
         THEN [inbox |-> [inb EXCEPT ![reg[username]] = Append(@, message)],
               awaited |-> TRUE, raises |-> None]
         ELSE [inbox |-> inb, awaited |-> TRUE, raises |-> username]

\* send_message from its resumption: when the awaited send_json raised, the
\* except clause runs disconnect(username) on the registry as it is by then.
send_message_except(reg, raises) ==
    IF raises = None THEN reg ELSE disconnect(reg, raises)

\* broadcast_targets that serves every username of the registry.
broadcast_targets_Everyone(room_id, exclude_username) ==
    IF room_id \in DOMAIN rooms
    THEN SelectSeq(<< rooms[room_id].teknisi_username,
                      rooms[room_id].admin_regional_username, "eve" >>,
                   LAMBDA u : u # exclude_username)
    ELSE << >>

\* broadcast_targets that always leaves out the admin_regional.
broadcast_targets_TeknisiOnly(room_id, exclude_username) ==
    IF room_id \in DOMAIN rooms
    THEN SelectSeq(<< rooms[room_id].teknisi_username >>,
                   LAMBDA u : u # exclude_username)
    ELSE << >>

\* The usernames broadcast_to_room iterates over, in order.
broadcast_targets(room_id, exclude_username) ==
    IF room_id \in DOMAIN rooms
    THEN SelectSeq(<< rooms[room_id].teknisi_username,
                      rooms[room_id].admin_regional_username >>,
                   LAMBDA u : u # exclude_username)
    ELSE << >>

\* The loop of broadcast_to_room, run up to the suspension in the first
\* send_json: rest holds the usernames still to be served after it, raises
\* the username to disconnect when the send_json it is suspended in raises.
RECURSIVE broadcast_run(_, _, _, _)
broadcast_run(reg, inb, targets, message) ==
    IF targets = << >>
    THEN [inbox |-> inb, rest |-> << >>, raises |-> None]
    ELSE LET r == send_message(reg, inb, Head(targets), message)
         IN IF r.awaited
            THEN [inbox |-> r.inbox, rest |-> Tail(targets), raises |-> r.raises]
            ELSE broadcast_run(reg, r.inbox, Tail(targets), message)

\* ------------------------------------------------------------ frames
Has(data, key) == key \in DOMAIN data
\* data.get(key)
Get(data, key) == IF Has(data, key) THEN data[key] ELSE None

\* KeyError that also raises on an action that is not known.
KeyError_UnknownAction(data) ==
    CASE Get(data, "action") = "send_message" ->
            ~(Has(data, "room_id") /\ Has(data, "sender_role") /\ Has(data, "message"))
      [] Get(data, "action") = "mark_read" ->
            IF ~Has(data, "room_id") THEN TRUE
            ELSE data["room_id"] \in DOMAIN rooms /\ ~Has(data, "role")
      [] OTHER -> TRUE

\* The keys whose absence raises KeyError while the action is processed.
\* send_message reads room_id, sender_role and message when it builds the row;
\* mark_read reads room_id for the query and role only when the room exists.
KeyError(data) ==
    CASE Get(data, "action") = "send_message" ->
            ~(Has(data, "room_id") /\ Has(data, "sender_role") /\ Has(data, "message"))
      [] Get(data, "action") = "mark_read" ->
            IF ~Has(data, "room_id") THEN TRUE
            ELSE data["room_id"] \in DOMAIN rooms /\ ~Has(data, "role")
      [] OTHER -> FALSE

\* The chat_messages row built from a send_message frame; is_read defaults to
\* False and created_at to datetime.now().
NewChatMessage(username, data) ==
    [ room_id |-> data["room_id"],
      sender_username |-> username,
      sender_role |-> data["sender_role"],
      message |-> data["message"],
      is_read |-> FALSE,
      created_at |-> clock ]

\* RoomsAfterSend with the branches swapped: the sender's own counter grows.
RoomsAfterSend_SameRole(data) ==
    IF data["room_id"] \in DOMAIN rooms
    THEN [rooms EXCEPT ![data["room_id"]] =
            IF data["sender_role"] = ROLE_TEKNISI
            THEN [@ EXCEPT !.last_message = data["message"],
                           !.unread_count_teknisi = @ + 1]
            ELSE [@ EXCEPT !.last_message = data["message"],
                           !.unread_count_admin = @ + 1]]
    ELSE rooms

\* The chat_rooms table after a send_message frame: last_message, and the
\* unread counter of the other role, when the room exists.
RoomsAfterSend(data) ==
    IF data["room_id"] \in DOMAIN rooms
    THEN [rooms EXCEPT ![data["room_id"]] =
            IF data["sender_role"] = ROLE_TEKNISI
            THEN [@ EXCEPT !.last_message = data["message"],
                           !.unread_count_admin = @ + 1]
            ELSE [@ EXCEPT !.last_message = data["message"],
                           !.unread_count_teknisi = @ + 1]]
    ELSE rooms

\* RoomsAfterMarkRead that zeroes the counter of the role in every room.
RoomsAfterMarkRead_AllRooms(data) ==
    IF data["room_id"] \in DOMAIN rooms
    THEN [ r \in DOMAIN rooms |->
            IF data["role"] = ROLE_TEKNISI
            THEN [rooms[r] EXCEPT !.unread_count_teknisi = 0]
            ELSE [rooms[r] EXCEPT !.unread_count_admin = 0] ]
    ELSE rooms

\* The chat_rooms table after a mark_read frame.
RoomsAfterMarkRead(data) ==
    IF data["room_id"] \in DOMAIN rooms
    THEN [rooms EXCEPT ![data["room_id"]] =
            IF data["role"] = ROLE_TEKNISI
            THEN [@ EXCEPT !.unread_count_teknisi = 0]
            ELSE [@ EXCEPT !.unread_count_admin = 0]]
    ELSE rooms

\* MessagesAfterMarkRead that flips the flag of the other member's messages,
\* read ones included.
MessagesAfterMarkRead_Toggle(username, data) ==
    IF data["room_id"] \in DOMAIN rooms
    THEN [ i \in DOMAIN messages |->
            IF /\ messages[i].room_id = data["room_id"]
               /\ messages[i].sender_username # username
            THEN [messages[i] EXCEPT !.is_read = ~@]
            ELSE messages[i] ]
    ELSE messages

\* MessagesAfterMarkRead without the sender filter: the caller's own messages
\* are flagged too.
MessagesAfterMarkRead_NoSenderFilter(username, data) ==
    IF data["room_id"] \in DOMAIN rooms
    THEN [ i \in DOMAIN messages |->
            IF /\ messages[i].room_id = data["room_id"]
               /\ messages[i].is_read = FALSE
            THEN [messages[i] EXCEPT !.is_read = TRUE]
            ELSE messages[i] ]
    ELSE messages

\* The chat_messages table after a mark_read frame received as username.
MessagesAfterMarkRead(username, data) ==
    IF data["room_id"] \in DOMAIN rooms
    THEN [ i \in DOMAIN messages |->
            IF /\ messages[i].room_id = data["room_id"]
               /\ messages[i].sender_username # username
               /\ messages[i].is_read = FALSE
            THEN [messages[i] EXCEPT !.is_read = TRUE]
            ELSE messages[i] ]
    ELSE messages

\* The event built before the row has an id (no commit, no refresh).
NewMessageEvent_Unrefreshed(id, row) ==
    [ type |-> "new_message", id |-> 0, room_id |-> row.room_id,
      sender_username |-> row.sender_username ]

\* The event broadcast for the row with this id.
NewMessageEvent(id, row) ==
    [ type |-> "new_message", id |-> id, room_id |-> row.room_id,
      sender_username |-> row.sender_username ]


\* ------------------------------------------------------ room resolution
\* query(models.User).filter(...).first(): the row of lowest index among
\* the rows whose indices are given, or NoUser.
FirstUser(hits) ==
    IF hits = {} THEN NoUser
    ELSE users[CHOOSE i \in hits : \A j \in hits : i <= j]

\* The teknisi row of a username.
FindTeknisi(teknisi_username) ==
    FirstUser({ i \in DOMAIN users :
                  /\ users[i].username = teknisi_username
                  /\ users[i].role = ROLE_TEKNISI })

\* FindAdminRegional with the two queries in the other order: region first.
FindAdminRegional_RegionFirst(teknisi) ==
    LET byRegion == FirstUser({ i \in DOMAIN users :
                                  /\ users[i].role = ROLE_ADMIN_REGIONAL
                                  /\ users[i].region = teknisi.region })
    IN IF byRegion # NoUser THEN byRegion
       ELSE FirstUser({ i \in DOMAIN users :
                          /\ users[i].role = ROLE_ADMIN_REGIONAL
                          /\ users[i].area = teknisi.area })

\* FindAdminRegional that falls back to any admin_regional at all.
FindAdminRegional_AnyFallback(teknisi) ==
    LET byArea == FirstUser({ i \in DOMAIN users :
                                /\ users[i].role = ROLE_ADMIN_REGIONAL
                                /\ users[i].area = teknisi.area })
    IN IF byArea # NoUser THEN byArea
       ELSE FirstUser({ i \in DOMAIN users : users[i].role = ROLE_ADMIN_REGIONAL })

\* The admin_regional paired with a teknisi row: same area first, else same region.
FindAdminRegional(teknisi) ==
    LET byArea == FirstUser({ i \in DOMAIN users :
                                /\ users[i].role = ROLE_ADMIN_REGIONAL
                                /\ users[i].area = teknisi.area })
    IN IF byArea # NoUser THEN byArea
       ELSE FirstUser({ i \in DOMAIN users :
                          /\ users[i].role = ROLE_ADMIN_REGIONAL
                          /\ users[i].region = teknisi.region })

\* FindRoom with the two columns compared against the wrong usernames.
FindRoom_Swapped(teknisi_username, admin_regional_username) ==
    LET hits == { r \in DOMAIN rooms :
                    /\ rooms[r].teknisi_username = admin_regional_username
                    /\ rooms[r].admin_regional_username = teknisi_username }
    IN IF hits = {} THEN NoRoom ELSE CHOOSE r \in hits : \A q \in hits : r <= q

\* The id of the first room of the pair, or NoRoom.
FindRoom(teknisi_username, admin_regional_username) ==
    LET hits == { r \in DOMAIN rooms :
                    /\ rooms[r].teknisi_username = teknisi_username
                    /\ rooms[r].admin_regional_username = admin_regional_username }
    IN IF hits = {} THEN NoRoom ELSE CHOOSE r \in hits : \A q \in hits : r <= q

\* A new chat_rooms row: counters default to 0, last_message is NULL.
NewChatRoom(teknisi, admin_regional) ==
    [ teknisi_username |-> teknisi.username,
      admin_regional_username |-> admin_regional.username,
      region |-> teknisi.region,
      last_message |-> None,
      unread_count_teknisi |-> 0,
      unread_count_admin |-> 0 ]

\* -------------------------------------------------------------- actions
Init ==
    /\ active_connections = [u \in AllUsers |-> NoConn]
    /\ handler = [c \in Conns |-> "Connecting"]
    /\ owner = [c \in Conns |-> None]
    /\ transport = [c \in Conns |-> FALSE]
    /\ bcast = [c \in Conns |-> NoBroadcast]
    /\ inbox = [c \in Conns |-> << >>]
    /\ rooms = << >>
    /\ messages = << >>
    /\ users = UsersTable
    /\ clock = 1

\* create_or_get_chat_room without the lookup of an existing room.
create_or_get_chat_room_AlwaysCreate(teknisi_username) ==
    LET teknisi == FindTeknisi(teknisi_username)
        admin_regional == IF teknisi = NoUser THEN NoUser ELSE FindAdminRegional(teknisi)
    IN IF teknisi = NoUser
       THEN [status |-> 404, detail |-> "Teknisi tidak ditemukan", id |-> NoRoom,
             teknisi_username |-> None, admin_regional_username |-> None,
             rooms |-> rooms]
       ELSE IF admin_regional = NoUser
       THEN [status |-> 404, detail |-> "Admin Regional tidak ditemukan untuk kota/region ini",
             id |-> NoRoom, teknisi_username |-> None, admin_regional_username |-> None,
             rooms |-> rooms]
       ELSE IF teknisi.region = None
       THEN [status |-> 500, detail |-> "IntegrityError", id |-> NoRoom,
             teknisi_username |-> None, admin_regional_username |-> None,
             rooms |-> rooms]
       ELSE [status |-> 200, detail |-> "success", id |-> Len(rooms) + 1,
             teknisi_username |-> teknisi.username,
             admin_regional_username |-> admin_regional.username,
             rooms |-> Append(rooms, NewChatRoom(teknisi, admin_regional))]

\* The body of create_or_get_chat_room on the current tables: the HTTP status
\* with its detail, the id and the usernames of the room returned, and the
\* chat_rooms table it leaves.  chat_rooms.region is NOT NULL: the commit of a
\* room for a teknisi without region raises, the request fails (500) and no
\* row is stored.
create_or_get_chat_room(teknisi_username) ==
    LET teknisi == FindTeknisi(teknisi_username)
        admin_regional == IF teknisi = NoUser THEN NoUser ELSE FindAdminRegional(teknisi)
        room == FindRoom(teknisi.username, admin_regional.username)
    IN IF teknisi = NoUser
       THEN [status |-> 404, detail |-> "Teknisi tidak ditemukan", id |-> NoRoom,
             teknisi_username |-> None, admin_regional_username |-> None,
             rooms |-> rooms]
       ELSE IF admin_regional = NoUser
       THEN [status |-> 404, detail |-> "Admin Regional tidak ditemukan untuk kota/region ini",
             id |-> NoRoom, teknisi_username |-> None, admin_regional_username |-> None,
             rooms |-> rooms]
       ELSE IF room # NoRoom
       THEN [status |-> 200, detail |-> "success", id |-> room,
             teknisi_username |-> rooms[room].teknisi_username,
             admin_regional_username |-> rooms[room].admin_regional_username,
             rooms |-> rooms]
       ELSE IF teknisi.region = None
       THEN [status |-> 500, detail |-> "IntegrityError", id |-> NoRoom,
             teknisi_username |-> None, admin_regional_username |-> None,
             rooms |-> rooms]
       ELSE [status |-> 200, detail |-> "success", id |-> Len(rooms) + 1,
             teknisi_username |-> teknisi.username,
             admin_regional_username |-> admin_regional.username,
             rooms |-> Append(rooms, NewChatRoom(teknisi, admin_regional))]

\* The dependency require_role(allowed_roles) of app.auth: the request goes
\* on with the authenticated user when its role is one of allowed_roles, and
\* is refused otherwise.
require_role(allowed_roles, current_user) == current_user.role \in allowed_roles

\* The authenticated users a request may come from: the rows of the users table.
CurrentUsers == { users[i] : i \in DOMAIN users }

\* The body of register on a users table: 400 when the username is taken,
\* 400 when the email is taken, otherwise the row is added and committed.
register(table, user) ==
    IF \E i \in DOMAIN table : table[i].username = user.username
    THEN [status |-> 400, detail |-> "Username already registered", users |-> table]
    ELSE IF \E i \in DOMAIN table : table[i].email = user.email
    THEN [status |-> 400, detail |-> "Email already registered", users |-> table]
    ELSE [status |-> 200, detail |-> None, users |-> Append(table, user)]

\* POST /register by an admin.
Register(current_user, user) ==
    /\ require_role({ROLE_ADMIN}, current_user)
    /\ users' = register(users, user).users
    /\ UNCHANGED << active_connections, handler, owner, transport, bcast, inbox,
                    rooms, messages, clock >>

\* The loop of upload_users over the rows of the file: a row whose username
\* exists, in the table or among the rows added before it, is skipped, the
\* others are added to the session.
RECURSIVE upload_users(_, _)
upload_users(table, rows) ==
    IF rows = << >> THEN table
    ELSE IF \E i \in DOMAIN table : table[i].username = Head(rows).username
         THEN upload_users(table, Tail(rows))
         ELSE upload_users(Append(table, Head(rows)), Tail(rows))

\* users.username and users.email are unique: the INSERTs of a session whose
\* rows would break that raise IntegrityError.
IntegrityError(table) ==
    \E i, j \in DOMAIN table :
        i # j /\ (table[i].username = table[j].username \/ table[i].email = table[j].email)

\* POST /upload/users by an admin: the rows are stored with one commit, and
\* an exception answers 400 and stores none of them.
UploadUsers(current_user, file) ==
    /\ require_role({ROLE_ADMIN}, current_user)
    /\ users' = IF IntegrityError(upload_users(users, file))
                THEN users
                ELSE upload_users(users, file)
    /\ UNCHANGED << active_connections, handler, owner, transport, bcast, inbox,
                    rooms, messages, clock >>

\* POST /chat/rooms: create or get the room of a teknisi.  current_user is
\* not read after the dependency has admitted it.
CreateOrGetChatRoom(current_user, teknisi_username) ==
    /\ require_role({ROLE_ADMIN_REGIONAL, ROLE_TEKNISI}, current_user)
    /\ rooms' = create_or_get_chat_room(teknisi_username).rooms
    /\ UNCHANGED << active_connections, handler, owner, transport, bcast, inbox, messages, users, clock >>

\* A client opens /ws/chat/{username}: accept, then register the channel.
\* Connections are numbered in the order they are opened.
Connect(c, username) ==
    /\ handler[c] = "Connecting"
    /\ \A d \in Conns : d < c => handler[d] # "Connecting"
    /\ handler' = [handler EXCEPT ![c] = "Open"]
    /\ owner' = [owner EXCEPT ![c] = username]
    /\ transport' = [transport EXCEPT ![c] = TRUE]
    /\ active_connections' = connect(active_connections, username, c)
    /\ UNCHANGED << bcast, inbox, rooms, messages, users, clock >>

\* The peer closes the socket of connection c (or the network drops it).
TransportClose(c) ==
    /\ handler[c] = "Open"
    /\ transport[c]
    /\ transport' = [transport EXCEPT ![c] = FALSE]
    /\ UNCHANGED << active_connections, handler, owner, bcast, inbox, rooms, messages, users, clock >>

\* The handler is waiting in receive_json().
\* The handler of c is suspended in a send_json of its broadcast: usernames are
\* left to serve, or the send it awaits is about to raise.
InBroadcast(c) == bcast[c].targets # << >> \/ bcast[c].raises # None
AtReceive(c) == handler[c] = "Open" /\ ~InBroadcast(c)

\* Leaving the loop and taking every other handler down too.
Close_AllHandlers(c) ==
    /\ handler' = [d \in Conns |-> IF handler[d] = "Open" THEN "Closed" ELSE handler[d]]
    /\ active_connections' = disconnect(active_connections, owner[c])
    /\ transport' = [transport EXCEPT ![c] = FALSE]
    /\ UNCHANGED << owner, bcast, inbox, rooms, messages, users, clock >>

\* Leaving the loop without manager.disconnect(username).
Close_NoDisconnect(c) ==
    /\ handler' = [handler EXCEPT ![c] = "Closed"]
    /\ transport' = [transport EXCEPT ![c] = FALSE]
    /\ UNCHANGED << active_connections, owner, bcast, inbox, rooms, messages, users, clock >>

\* Leaving the loop through either except clause: manager.disconnect(username).
Close(c) ==
    /\ handler' = [handler EXCEPT ![c] = "Closed"]
    /\ active_connections' = disconnect(active_connections, owner[c])
    /\ transport' = [transport EXCEPT ![c] = FALSE]
    /\ UNCHANGED << owner, bcast, inbox, rooms, messages, users, clock >>

\* receive_json() raises WebSocketDisconnect.
ReceiveDisconnect(c) ==
    /\ AtReceive(c)
    /\ ~transport[c]
    /\ Close(c)

\* A frame may have been received before the peer closed its socket: it is
\* handled all the same, and the close is met by a later send_json on that
\* socket or by the next receive_json().
\* receive_json() raises on text that is not JSON, and data.get raises on a
\* JSON value that is not an object: except Exception.
ReceiveMalformed(c) ==
    /\ AtReceive(c)
    /\ Close(c)

\* A frame whose action raises KeyError: except Exception.
ReceiveIncomplete(c, data) ==
    /\ AtReceive(c)
    /\ KeyError(data)
    /\ Close(c)

\* ReceiveSendMessage that handles a frame only when its room exists (a frame
\* naming a missing room is not accepted as a send).
ReceiveSendMessage_RoomRequired(c, data) ==
    /\ AtReceive(c)
    /\ Get(data, "action") = "send_message"
    /\ ~KeyError(data)
    /\ data["room_id"] \in DOMAIN rooms
    /\ Len(messages) < MaxMessages
    /\ LET row == NewChatMessage(owner[c], data)
           id == Len(messages) + 1
           ev == NewMessageEvent(id, row)
           run == broadcast_run(active_connections, inbox,
                                broadcast_targets(data["room_id"], None), ev)
       IN /\ messages' = Append(messages, row)
          /\ rooms' = RoomsAfterSend(data)
          /\ inbox' = run.inbox
          /\ bcast' = [bcast EXCEPT ![c] =
                          IF run.rest = << >> /\ run.raises = None THEN NoBroadcast
                          ELSE [targets |-> run.rest, ev |-> ev, raises |-> run.raises]]
    /\ UNCHANGED << active_connections, handler, owner, transport, users, clock >>

\* action == "send_message": add the row, update the room, commit, then
\* broadcast up to the first send_json.
ReceiveSendMessage(c, data) ==
    /\ AtReceive(c)
    /\ Get(data, "action") = "send_message"
    /\ ~KeyError(data)
    /\ Len(messages) < MaxMessages
    /\ LET row == NewChatMessage(owner[c], data)
           id == Len(messages) + 1
           ev == NewMessageEvent(id, row)
           run == broadcast_run(active_connections, inbox,
                                broadcast_targets(data["room_id"], None), ev)
       IN /\ messages' = Append(messages, row)
          /\ rooms' = RoomsAfterSend(data)
          /\ inbox' = run.inbox
          /\ bcast' = [bcast EXCEPT ![c] =
                          IF run.rest = << >> /\ run.raises = None THEN NoBroadcast
                          ELSE [targets |-> run.rest, ev |-> ev, raises |-> run.raises]]
    /\ UNCHANGED << active_connections, handler, owner, transport, users, clock >>

\* The handler resumes from the send_json its broadcast is suspended in: when
\* that send raised, disconnect(username) runs first; the loop then serves the
\* remaining usernames up to the next send_json.
BroadcastResume(c) ==
    /\ handler[c] = "Open"
    /\ InBroadcast(c)
    /\ LET reg == send_message_except(active_connections, bcast[c].raises)
           run == broadcast_run(reg, inbox, bcast[c].targets, bcast[c].ev)
       IN /\ active_connections' = reg
          /\ inbox' = run.inbox
          /\ bcast' = [bcast EXCEPT ![c] =
                          IF run.rest = << >> /\ run.raises = None THEN NoBroadcast
                          ELSE [targets |-> run.rest, ev |-> bcast[c].ev,
                                raises |-> run.raises]]
    /\ UNCHANGED << handler, owner, transport, rooms, messages, users, clock >>

\* ReceiveMarkRead that also sends a read receipt on the reader's channel.
ReceiveMarkRead_Notify(c, data) ==
    /\ AtReceive(c)
    /\ Get(data, "action") = "mark_read"
    /\ ~KeyError(data)
    /\ rooms' = RoomsAfterMarkRead(data)
    /\ messages' = MessagesAfterMarkRead(owner[c], data)
    /\ inbox' = [inbox EXCEPT ![c] =
                    Append(@, [type |-> "read", id |-> 0, room_id |-> data["room_id"],
                               sender_username |-> owner[c]])]
    /\ UNCHANGED << active_connections, handler, owner, transport, bcast, users, clock >>

\* action == "mark_read": zero the counter of the role, flag the messages of
\* the others read, commit.  Nothing is broadcast.
ReceiveMarkRead(c, data) ==
    /\ AtReceive(c)
    /\ Get(data, "action") = "mark_read"
    /\ ~KeyError(data)
    /\ rooms' = RoomsAfterMarkRead(data)
    /\ messages' = MessagesAfterMarkRead(owner[c], data)
    /\ UNCHANGED << active_connections, handler, owner, transport, bcast, inbox, users, clock >>

\* Any other action, or none: the loop goes on to the next receive_json().
ReceiveOther(c, data) ==
    /\ AtReceive(c)
    /\ Get(data, "action") \notin {"send_message", "mark_read"}
    /\ UNCHANGED << active_connections, handler, owner, transport, bcast, inbox,
                    rooms, messages, users, clock >>

\* ------------------------------------------------------------- history
\* The clock advances.
Tick ==
    /\ clock < MaxClock
    /\ clock' = clock + 1
    /\ UNCHANGED << active_connections, handler, owner, transport, bcast, inbox,
                    rooms, messages, users >>

\* created_at.strftime("%Y-%m-%d %H:%M:%S"): the reading cut to the second.
strftime(created_at) == created_at \div TicksPerSecond

\* The lists .filter(room_id == room_id).order_by(created_at.desc()) may yield:
\* the ids of the rows of the room, newest first, rows of equal created_at in
\* any order (ORDER BY names no other key).
OrderByCreatedAtDesc(room_id) ==
    LET ids == { i \in DOMAIN messages : messages[i].room_id = room_id }
        n == Cardinality(ids)
    IN { q \in [1..n -> ids] :
           \A a, b \in 1..n :
              a < b => /\ q[a] # q[b]
                       /\ messages[q[a]].created_at >= messages[q[b]].created_at }

\* .offset(skip).limit(limit)
OffsetLimit(seq, skip, limit) ==
    SubSeq(seq, skip + 1, IF skip + limit < Len(seq) THEN skip + limit ELSE Len(seq))

\* messages.reverse()
Reverse(seq) == [ k \in 1..Len(seq) |-> seq[Len(seq) + 1 - k] ]

\* The dictionary returned for a chat_messages row.
MessageData(id) ==
    [ id |-> id,
      sender_username |-> messages[id].sender_username,
      sender_role |-> messages[id].sender_role,
      message |-> messages[id].message,
      is_read |-> messages[id].is_read,
      created_at |-> strftime(messages[id].created_at) ]

\* get_chat_messages without the check of the admin_regional caller.
get_chat_messages_NoAdminCheck(current_user, room_id, skip, limit) ==
    IF room_id \notin DOMAIN rooms
    THEN [status |-> 404, results |-> {}]
    ELSE IF /\ current_user.role = ROLE_TEKNISI
            /\ rooms[room_id].teknisi_username # current_user.username
    THEN [status |-> 403, results |-> {}]
    ELSE [status |-> 200,
          results |-> { LET page == Reverse(OffsetLimit(q, skip, limit))
                        IN [ k \in 1..Len(page) |-> MessageData(page[k]) ] :
                        q \in OrderByCreatedAtDesc(room_id) }]

\* The body of get_chat_messages on the current tables: the HTTP status and
\* the lists of dictionaries it may return (one per order the query may yield).
get_chat_messages(current_user, room_id, skip, limit) ==
    IF room_id \notin DOMAIN rooms
    THEN [status |-> 404, results |-> {}]
    ELSE IF /\ current_user.role = ROLE_TEKNISI
            /\ rooms[room_id].teknisi_username # current_user.username
    THEN [status |-> 403, results |-> {}]
    ELSE IF /\ current_user.role = ROLE_ADMIN_REGIONAL
            /\ rooms[room_id].admin_regional_username # current_user.username
    THEN [status |-> 403, results |-> {}]
    ELSE [status |-> 200,
          results |-> { LET page == Reverse(OffsetLimit(q, skip, limit))
                        IN [ k \in 1..Len(page) |-> MessageData(page[k]) ] :
                        q \in OrderByCreatedAtDesc(room_id) }]

\* GET /chat/rooms/{room_id}/messages: answers, and writes nothing.
GetChatMessages(current_user, room_id, skip, limit) ==
    /\ get_chat_messages(current_user, room_id, skip, limit).status \in {200, 403, 404}
    /\ UNCHANGED vars

\* The users who make the HTTP requests while the chat runs: an admin, a
\* teknisi and an admin_regional.
Callers == { u \in CurrentUsers : u.username \in CallerInputs }

\* The history request is made with its default page (skip 0, limit 50).
Next ==
    \/ \E u \in Callers, user \in RegisterInputs : Register(u, user)
    \/ \E u \in Callers, file \in UploadInputs : UploadUsers(u, file)
    \/ \E u \in Callers, t \in TeknisiInputs : CreateOrGetChatRoom(u, t)
    \/ \E c \in Conns, u \in ConnUsers : Connect(c, u)
    \/ \E c \in Conns : TransportClose(c)
    \/ \E c \in Conns : ReceiveDisconnect(c)
    \/ \E c \in Conns : ReceiveMalformed(c)
    \/ \E c \in Conns, data \in Frames : ReceiveIncomplete(c, data)
    \/ \E c \in Conns, data \in Frames : ReceiveSendMessage(c, data)
    \/ \E c \in Conns : BroadcastResume(c)
    \/ \E c \in Conns, data \in Frames : ReceiveMarkRead(c, data)
    \/ \E c \in Conns, data \in Frames : ReceiveOther(c, data)
    \/ \E u \in Callers, r \in HistoryRoomIds : GetChatMessages(u, r, 0, 50)

Spec == Init /\ [][Next]_vars

\* The same system with the clock advancing between its steps.
ClockNext == Next \/ Tick

\* History is examined from the state in which every connection but the last
\* has been opened by eve and closed again, and nothing else has happened.
ClockInit ==
    /\ active_connections = [u \in AllUsers |-> NoConn]
    /\ handler = [c \in Conns |-> IF c < MaxConns THEN "Closed" ELSE "Connecting"]
    /\ owner = [c \in Conns |-> IF c < MaxConns THEN "eve" ELSE None]
    /\ transport = [c \in Conns |-> FALSE]
    /\ bcast = [c \in Conns |-> NoBroadcast]
    /\ inbox = [c \in Conns |-> << >>]
    /\ rooms = << >>
    /\ messages = << >>
    /\ users = UsersTable
    /\ clock = 1

ClockSpec == ClockInit /\ [][ClockNext]_vars

\* Room resolution on any users table: nobody is connected, the chat_rooms
\* table is empty, and POST /chat/rooms is called in any order.
RoomInit ==
    /\ active_connections = [u \in AllUsers |-> NoConn]
    /\ handler = [c \in Conns |-> "Connecting"]
    /\ owner = [c \in Conns |-> None]
    /\ transport = [c \in Conns |-> FALSE]
    /\ bcast = [c \in Conns |-> NoBroadcast]
    /\ inbox = [c \in Conns |-> << >>]
    /\ rooms = << >>
    /\ messages = << >>
    /\ users \in Directories
    /\ clock = 1

RoomNext ==
    \/ \E u \in CurrentUsers, user \in RegisterInputs : Register(u, user)
    \/ \E u \in CurrentUsers, file \in UploadInputs : UploadUsers(u, file)
    \/ \E u \in CurrentUsers, t \in TeknisiInputs : CreateOrGetChatRoom(u, t)

RoomSpec == RoomInit /\ [][RoomNext]_vars

\* The system with a second room in the tables.  The rooms of tek1 and of tek2
\* have been created in that order, tek2 has sent one message into its room
\* (room 2) and has disconnected; reg2 has not read it.  The frames name room 1.
TwoRoomInit ==
    /\ active_connections = [u \in AllUsers |-> NoConn]
    /\ handler = [c \in Conns |-> "Connecting"]
    /\ owner = [c \in Conns |-> None]
    /\ transport = [c \in Conns |-> FALSE]
    /\ bcast = [c \in Conns |-> NoBroadcast]
    /\ inbox = [c \in Conns |-> << >>]
    /\ rooms = << NewChatRoom(UsersTable[2], UsersTable[1]),
                  [NewChatRoom(UsersTable[3], UsersTable[4]) EXCEPT
                      !.last_message = "a", !.unread_count_admin = 1] >>
    /\ messages = << [ room_id |-> 2,
                       sender_username |-> "tek2",
                       sender_role |-> ROLE_TEKNISI,
                       message |-> "a",
                       is_read |-> FALSE,
                       created_at |-> 1 ] >>
    /\ users = UsersTable
    /\ clock = 1

TwoRoomSpec == TwoRoomInit /\ [][Next]_vars


\* ---------------------------------------------------------------- claims
\* The two members of a room, and the rows of a room a user sent and nobody read.
UnreadFrom(r, username) ==
    { i \in DOMAIN messages :
        /\ messages[i].room_id = r
        /\ messages[i].sender_username = username
        /\ messages[i].is_read = FALSE }

\* C1: every send_message frame accepted on an existing room adds exactly 1 to
\* the unread counter of the role opposite to the frame's sender_role and
\* leaves the counter of the sender_role itself unchanged.
C1_SendIncrementsOpposite ==
    [][ \A c \in Conns, data \in SendFrames :
          (ReceiveSendMessage(c, data) /\ data.room_id \in DOMAIN rooms) =>
             LET old == rooms[data.room_id]
                 new == rooms'[data.room_id]
             IN IF data.sender_role = ROLE_TEKNISI
                THEN /\ new.unread_count_admin = old.unread_count_admin + 1
                     /\ new.unread_count_teknisi = old.unread_count_teknisi
                ELSE /\ new.unread_count_teknisi = old.unread_count_teknisi + 1
                     /\ new.unread_count_admin = old.unread_count_admin ]_vars

\* A room holding a message sent as teknisi whose admin counter was raised
\* while the teknisi counter stayed 0.
C1_Witness ==
    \E r \in DOMAIN rooms, i \in DOMAIN messages :
        /\ messages[i].room_id = r
        /\ messages[i].sender_role = ROLE_TEKNISI
        /\ rooms[r].unread_count_admin = 1
        /\ rooms[r].unread_count_teknisi = 0

\* C2: a mark_read frame on an existing room zeroes the counter of the role it
\* names and leaves the other counter; it flags read every message of the room
\* not sent by the connected identity and changes no message that identity sent.
C2_MarkRead ==
    [][ \A c \in Conns, data \in MarkFrames :
          (ReceiveMarkRead(c, data) /\ data.room_id \in DOMAIN rooms) =>
             LET old == rooms[data.room_id]
                 new == rooms'[data.room_id]
             IN /\ IF data.role = ROLE_TEKNISI
                   THEN /\ new.unread_count_teknisi = 0
                        /\ new.unread_count_admin = old.unread_count_admin
                   ELSE /\ new.unread_count_admin = 0
                        /\ new.unread_count_teknisi = old.unread_count_teknisi
                /\ DOMAIN messages' = DOMAIN messages
                /\ \A i \in DOMAIN messages :
                      /\ (messages[i].room_id = data.room_id
                            /\ messages[i].sender_username # owner[c])
                         => messages'[i] = [messages[i] EXCEPT !.is_read = TRUE]
                      /\ messages[i].sender_username = owner[c]
                         => messages'[i] = messages[i] ]_vars

\* Two messages of one room: the older one still unread, the newer one read.
\* The mark_read that flagged the newer one left the older one alone, so it
\* came from the sender of the older one.
C2_Witness ==
    \E r \in DOMAIN rooms, i, j \in DOMAIN messages :
        /\ i < j
        /\ messages[i].room_id = r /\ messages[j].room_id = r
        /\ messages[i].is_read = FALSE
        /\ messages[j].is_read = TRUE
        /\ messages[i].sender_username # messages[j].sender_username

\* C3: in every state each role's unread counter of a room equals the number
\* of unread messages of the room sent by the other member.
C3_CounterMatchesUnread ==
    \A r \in DOMAIN rooms :
        /\ rooms[r].unread_count_teknisi
             = Cardinality(UnreadFrom(r, rooms[r].admin_regional_username))
        /\ rooms[r].unread_count_admin
             = Cardinality(UnreadFrom(r, rooms[r].teknisi_username))


\* The user has a registry entry / one whose channel still works.
Registered(u) == active_connections[u] # NoConn
RegisteredLive(u) == Registered(u) /\ transport[active_connections[u]]

\* The event is that of a stored row.
Stored(ev) ==
    /\ ev.type = "new_message"
    /\ ev.id \in DOMAIN messages
    /\ messages[ev.id].room_id = ev.room_id
    /\ messages[ev.id].sender_username = ev.sender_username

\* C4: every new_message event delivered to a channel, or still being
\* broadcast, is that of a message already committed to chat_messages.
C4_BroadcastAfterCommit ==
    \A c \in Conns :
        /\ \A k \in DOMAIN inbox[c] : Stored(inbox[c][k])
        /\ InBroadcast(c) => Stored(bcast[c].ev)

\* A channel has received an event.
C4_Witness ==
    \E c \in Conns : inbox[c] # << >> /\ Stored(inbox[c][1])

\* Exactly channel k receives ev in this step.
DeliveredOnlyTo(k, ev) ==
    /\ inbox'[k] = Append(inbox[k], ev)
    /\ \A j \in Conns \ {k} : inbox'[j] = inbox[j]

\* No channel holds two events of one message.
NoDuplicateEvent ==
    \A k \in Conns : \A i, j \in DOMAIN inbox[k] :
        i # j => inbox[k][i].id # inbox[k][j].id

\* C5: after the commit of a send_message frame on an existing room whose two
\* members both have a working registered channel, each member (the sender
\* too) is delivered one new_message event carrying the id of the new row:
\* the teknisi in the step of the commit, the admin_regional when the
\* broadcast resumes, and no channel ever gets the event of a message twice.
C5_BothMembersReceive ==
    [][ /\ \A c \in Conns, data \in SendFrames :
              ( /\ ReceiveSendMessage(c, data)
                /\ data.room_id \in DOMAIN rooms
                /\ RegisteredLive(rooms[data.room_id].teknisi_username)
                /\ RegisteredLive(rooms[data.room_id].admin_regional_username) )
              => LET id == Len(messages) + 1
                     ev == NewMessageEvent(id, messages'[id])
                 IN /\ ev.id = id
                    /\ DeliveredOnlyTo(
                          active_connections[rooms[data.room_id].teknisi_username], ev)
                    /\ bcast'[c] = [targets |-> << rooms[data.room_id].admin_regional_username >>,
                                    ev |-> ev, raises |-> None]
        /\ \A c \in Conns :
              ( /\ BroadcastResume(c)
                /\ bcast[c].targets # << >>
                /\ RegisteredLive(Head(bcast[c].targets)) )
              => /\ DeliveredOnlyTo(active_connections[Head(bcast[c].targets)], bcast[c].ev)
                 /\ bcast'[c].targets = Tail(bcast[c].targets)
        /\ NoDuplicateEvent' ]_vars

\* Both members of a room are connected, a message of the room was sent by
\* one of them, and each of the two channels holds its event.
C5_Witness ==
    \E r \in DOMAIN rooms, i \in DOMAIN messages, kt, ka \in Conns :
        /\ messages[i].room_id = r
        /\ owner[kt] = rooms[r].teknisi_username
        /\ owner[ka] = rooms[r].admin_regional_username
        /\ messages[i].sender_username \in {owner[kt], owner[ka]}
        /\ \E n \in DOMAIN inbox[kt] : inbox[kt][n].id = i
        /\ \E n \in DOMAIN inbox[ka] : inbox[ka][n].id = i

\* The send step of a broadcast to a room with exactly one registered member.
OneMemberRegistered(r) ==
    Registered(rooms[r].teknisi_username) # Registered(rooms[r].admin_regional_username)
TheRegisteredMember(r) ==
    IF Registered(rooms[r].teknisi_username)
    THEN rooms[r].teknisi_username ELSE rooms[r].admin_regional_username

\* C6 as stated: a broadcast to a room with exactly one registered member
\* delivers to that member only and leaves the registry unchanged, when the
\* send is made and when the broadcast resumes from it.
C6_OneRegisteredMember_Original ==
    [][ /\ \A c \in Conns, data \in SendFrames :
              ( /\ ReceiveSendMessage(c, data)
                /\ data.room_id \in DOMAIN rooms
                /\ OneMemberRegistered(data.room_id) )
              => /\ DeliveredOnlyTo(active_connections[TheRegisteredMember(data.room_id)],
                                    NewMessageEvent(Len(messages) + 1, messages'[Len(messages) + 1]))
                 /\ active_connections' = active_connections
                 /\ handler' = handler
        /\ \A c \in Conns :
              (BroadcastResume(c) /\ OneMemberRegistered(bcast[c].ev.room_id))
              => active_connections' = active_connections ]_vars

\* C6 (amended): a broadcast to a room in which exactly one member has a
\* registered channel, and that channel works, delivers the event to that
\* member only, leaves the registry unchanged and leaves the sending handler
\* Open; serving the absent member changes nothing.
C6_OneLiveMember ==
    [][ /\ \A c \in Conns, data \in SendFrames :
              ( /\ ReceiveSendMessage(c, data)
                /\ data.room_id \in DOMAIN rooms
                /\ OneMemberRegistered(data.room_id)
                /\ RegisteredLive(TheRegisteredMember(data.room_id)) )
              => /\ DeliveredOnlyTo(active_connections[TheRegisteredMember(data.room_id)],
                                    NewMessageEvent(Len(messages) + 1, messages'[Len(messages) + 1]))
                 /\ active_connections' = active_connections
                 /\ handler' = handler /\ handler[c] = "Open"
                 /\ bcast'[c].raises = None
        /\ \A c \in Conns :
              ( /\ BroadcastResume(c)
                /\ bcast[c].raises = None
                /\ ~Registered(Head(bcast[c].targets)) )
              => /\ inbox' = inbox
                 /\ active_connections' = active_connections
                 /\ handler' = handler /\ handler[c] = "Open"
                 /\ bcast'[c] = NoBroadcast ]_vars

\* One member of a room is connected and holds the event of a message of the
\* room; the other member never connected.
C6_Witness ==
    \E r \in DOMAIN rooms, i \in DOMAIN messages, k \in Conns :
        /\ messages[i].room_id = r
        /\ owner[k] \in {rooms[r].teknisi_username, rooms[r].admin_regional_username}
        /\ \E n \in DOMAIN inbox[k] : inbox[k][n].id = i
        /\ \A j \in Conns :
              owner[j] \notin ({rooms[r].teknisi_username, rooms[r].admin_regional_username}
                                 \ {owner[k]})


\* C7: when the send_json to a member's channel fails during a broadcast,
\* nothing is delivered on that channel, and when the broadcast resumes from
\* the send only that member's registry entry is removed, the sending handler
\* stays Open, and the broadcast goes on to the other member, whose entry is
\* kept and who is served when it has a working channel.
C7_DeliveryFailure ==
    [][ /\ \A c \in Conns, data \in SendFrames :
              ( /\ ReceiveSendMessage(c, data)
                /\ data.room_id \in DOMAIN rooms
                /\ Registered(rooms[data.room_id].teknisi_username)
                /\ ~RegisteredLive(rooms[data.room_id].teknisi_username) )
              => /\ inbox' = inbox
                 /\ handler' = handler /\ handler[c] = "Open"
                 /\ bcast'[c].raises = rooms[data.room_id].teknisi_username
                 /\ bcast'[c].targets = << rooms[data.room_id].admin_regional_username >>
                 /\ bcast'[c].ev.id = Len(messages')
        /\ \A c \in Conns :
              (BroadcastResume(c) /\ bcast[c].raises # None)
              => /\ active_connections'[bcast[c].raises] = NoConn
                 /\ \A u \in AllUsers \ {bcast[c].raises} :
                       active_connections'[u] = active_connections[u]
                 /\ \A k \in Conns : owner[k] = bcast[c].raises => inbox'[k] = inbox[k]
                 /\ handler' = handler /\ handler[c] = "Open"
        /\ \A c \in Conns :
              ( /\ BroadcastResume(c)
                /\ bcast[c].targets # << >>
                /\ Registered(Head(bcast[c].targets))
                /\ ~RegisteredLive(Head(bcast[c].targets)) )
              => /\ inbox' = inbox
                 /\ bcast'[c].raises = Head(bcast[c].targets)
        /\ \A c \in Conns :
              ( /\ BroadcastResume(c)
                /\ bcast[c].targets # << >>
                /\ RegisteredLive(Head(bcast[c].targets)) )
              => /\ inbox'[active_connections[Head(bcast[c].targets)]]
                       = Append(inbox[active_connections[Head(bcast[c].targets)]], bcast[c].ev)
                 /\ active_connections'[Head(bcast[c].targets)]
                       = active_connections[Head(bcast[c].targets)] ]_vars

\* The teknisi's socket is closed and its entry is gone while its handler has
\* not yet left the loop, and the admin_regional holds the event of a message
\* of their room on its still registered channel.
C7_Witness ==
    \E r \in DOMAIN rooms, i \in DOMAIN messages, kt, ka \in Conns :
        /\ messages[i].room_id = r
        /\ owner[kt] = rooms[r].teknisi_username
        /\ owner[ka] = rooms[r].admin_regional_username
        /\ handler[kt] = "Open" /\ ~transport[kt]
        /\ ~Registered(owner[kt])
        /\ inbox[kt] = << >>
        /\ active_connections[owner[ka]] = ka
        /\ \E n \in DOMAIN inbox[ka] : inbox[ka][n].id = i

\* C8: connect(identity, channel) makes the registry map the identity to that
\* channel, whatever it held before, leaves every other entry unchanged, and
\* sends nothing to, and does not close, any other channel.
C8_ConnectReplaces ==
    [][ \A c \in Conns, u \in ConnUsers :
          Connect(c, u) =>
             /\ active_connections'[u] = c
             /\ \A v \in AllUsers \ {u} : active_connections'[v] = active_connections[v]
             /\ inbox' = inbox
             /\ \A d \in Conns \ {c} :
                   handler'[d] = handler[d] /\ transport'[d] = transport[d] ]_vars

\* An identity connected twice: the registry holds the second channel while
\* the first is still open and has received nothing.
C8_Witness ==
    \E c, d \in Conns :
        /\ c < d
        /\ owner[c] = owner[d] /\ owner[c] # None
        /\ active_connections[owner[c]] = d
        /\ handler[c] = "Open" /\ transport[c]
        /\ inbox[c] = << >>

\* C9: disconnect(identity) removes the entry of the identity and no other;
\* on an absent identity it changes nothing, and a second call changes nothing.
C9_DisconnectIdempotent ==
    \A u \in AllUsers :
        LET once == disconnect(active_connections, u)
        IN /\ once[u] = NoConn
           /\ \A v \in AllUsers \ {u} : once[v] = active_connections[v]
           /\ ~Registered(u) => once = active_connections
           /\ disconnect(once, u) = once

\* A handler has closed and its identity is absent while another identity is
\* still registered.
C9_Witness ==
    \E c \in Conns, v \in AllUsers :
        /\ handler[c] = "Closed"
        /\ ~Registered(owner[c])
        /\ v # owner[c] /\ Registered(v)

\* C10: a handler that leaves Open has called disconnect(identity), so the
\* identity has no registry entry afterwards; Closed is final, and a Closed
\* handler takes no frame, resumes no broadcast and writes nothing.
C10_ClosedIsTerminal ==
    [][ \A c \in Conns :
          /\ (handler[c] = "Open" /\ handler'[c] = "Closed")
                => active_connections'[owner[c]] = NoConn
          /\ handler[c] = "Closed" =>
                /\ handler'[c] = "Closed"
                /\ ~BroadcastResume(c)
                /\ \A data \in Frames :
                      /\ ~ReceiveSendMessage(c, data)
                      /\ ~ReceiveMarkRead(c, data)
                      /\ ~ReceiveIncomplete(c, data) ]_vars

\* A handler closed after a message was stored; its identity has no entry.
C10_Witness ==
    \E c \in Conns :
        /\ handler[c] = "Closed"
        /\ ~Registered(owner[c])
        /\ \E i \in DOMAIN messages : messages[i].sender_username = owner[c]


\* ------------------------------------------------ claims on room resolution
\* C11: room resolution is idempotent while the users table is unchanged.  A
\* successful call for a teknisi leaves a state in which a further call for
\* that teknisi returns the same room id and creates nothing; and once a call
\* would return an existing room, it returns that same id after every later
\* step, so only the first call creates a room.
C11_ResolveIdempotent ==
    [][ \A t \in TeknisiInputs :
          LET first == create_or_get_chat_room(t)
              again == create_or_get_chat_room(t)'
          IN /\ ((\E u \in CurrentUsers : CreateOrGetChatRoom(u, t)) /\ first.status = 200) =>
                   /\ again.status = 200
                   /\ again.id = first.id
                   /\ again.rooms = rooms'
             /\ (first.status = 200 /\ first.id \in DOMAIN rooms /\ users' = users) =>
                   /\ again.status = 200
                   /\ again.id = first.id
                   /\ again.rooms = rooms' ]_vars

\* Two rooms exist, and a call for the teknisi of the second returns room 2
\* and leaves the table as it is.
C11_Witness ==
    /\ Len(rooms) = 2
    /\ \E t \in TeknisiInputs :
          /\ create_or_get_chat_room(t).status = 200
          /\ create_or_get_chat_room(t).id = 2
          /\ create_or_get_chat_room(t).rooms = rooms

\* C12: in every reachable state at most one chat_rooms row exists per
\* (teknisi_username, admin_regional_username) pair, whatever the order in
\* which the calls of POST /chat/rooms are served.
C12_OneRoomPerPair ==
    \A r, q \in DOMAIN rooms :
        ( /\ rooms[r].teknisi_username = rooms[q].teknisi_username
          /\ rooms[r].admin_regional_username = rooms[q].admin_regional_username )
        => r = q

\* Two teknisi were resolved to the same admin_regional: two rooms, two pairs.
C12_Witness ==
    \E r, q \in DOMAIN rooms :
        /\ r # q
        /\ rooms[r].admin_regional_username = rooms[q].admin_regional_username
        /\ rooms[r].teknisi_username # rooms[q].teknisi_username

\* No users row has this username together with the teknisi role.
NoTeknisiRow(t) ==
    ~ \E i \in DOMAIN users : users[i].username = t /\ users[i].role = ROLE_TEKNISI

\* The username is a teknisi, and no admin_regional row has the area or the
\* region of that teknisi.
NoCoordinatorFor(t) ==
    \E i \in DOMAIN users :
        /\ users[i].username = t /\ users[i].role = ROLE_TEKNISI
        /\ ~ \E j \in DOMAIN users :
                /\ users[j].role = ROLE_ADMIN_REGIONAL
                /\ (users[j].area = users[i].area \/ users[j].region = users[i].region)

\* C13: when no users row has the given username with the teknisi role, or no
\* admin_regional has the area or the region of the teknisi, POST /chat/rooms
\* answers 404 and returns no room, and the call leaves chat_rooms,
\* chat_messages and users as they were.
C13_ResolveNotFound ==
    /\ [](\A t \in TeknisiInputs :
            (NoTeknisiRow(t) \/ NoCoordinatorFor(t)) =>
               /\ create_or_get_chat_room(t).status = 404
               /\ create_or_get_chat_room(t).id = NoRoom
               /\ create_or_get_chat_room(t).rooms = rooms)
    /\ [][ \A t \in TeknisiInputs :
             ( /\ \E u \in CurrentUsers : CreateOrGetChatRoom(u, t)
               /\ (NoTeknisiRow(t) \/ NoCoordinatorFor(t)) )
             => UNCHANGED << rooms, messages, users >> ]_vars

\* A room exists for one teknisi, a second teknisi has no admin_regional of
\* its area or region, and the calls for the second are answered 404.
C13_Witness ==
    /\ Len(rooms) = 1
    /\ \E t \in TeknisiInputs :
          /\ NoCoordinatorFor(t)
          /\ create_or_get_chat_room(t).status = 404
          /\ \E j \in DOMAIN users : users[j].role = ROLE_ADMIN_REGIONAL

\* The admin_regional rows with the area, and with the region, of users row i.
AreaMatches(i) ==
    { j \in DOMAIN users :
        users[j].role = ROLE_ADMIN_REGIONAL /\ users[j].area = users[i].area }
RegionMatches(i) ==
    { j \in DOMAIN users :
        users[j].role = ROLE_ADMIN_REGIONAL /\ users[j].region = users[i].region }

\* C14: for a teknisi with at least one admin_regional of its area, POST
\* /chat/rooms returns (and, when it creates, stores) a room whose
\* admin_regional has that area, even when other admin_regional rows match by
\* region only; an admin_regional of the region is paired exactly when none
\* has the area.
C14_AreaPreferred ==
    \A t \in TeknisiInputs : \A i \in DOMAIN users :
        (users[i].username = t /\ users[i].role = ROLE_TEKNISI) =>
            LET resp == create_or_get_chat_room(t)
                paired == { j \in DOMAIN users :
                              users[j].username = resp.admin_regional_username }
            IN /\ AreaMatches(i) # {} =>
                     /\ resp.status = 200
                     /\ paired # {} /\ paired \subseteq AreaMatches(i)
               /\ (AreaMatches(i) = {} /\ RegionMatches(i) # {}) =>
                     /\ resp.status = 200
                     /\ paired # {} /\ paired \subseteq RegionMatches(i)
               /\ resp.status = 200 =>
                     /\ resp.rooms[resp.id].teknisi_username = t
                     /\ resp.rooms[resp.id].admin_regional_username
                          = resp.admin_regional_username

\* The same preference for the teknisi rows that have a region: for them the
\* INSERT into chat_rooms satisfies region NOT NULL and the call answers 200.
AreaPreferredWhenRegionSet ==
    \A t \in TeknisiInputs : \A i \in DOMAIN users :
        (users[i].username = t /\ users[i].role = ROLE_TEKNISI /\ users[i].region # None) =>
            LET resp == create_or_get_chat_room(t)
                paired == { j \in DOMAIN users :
                              users[j].username = resp.admin_regional_username }
            IN /\ AreaMatches(i) # {} =>
                     /\ resp.status = 200
                     /\ paired # {} /\ paired \subseteq AreaMatches(i)
               /\ (AreaMatches(i) = {} /\ RegionMatches(i) # {}) =>
                     /\ resp.status = 200
                     /\ paired # {} /\ paired \subseteq RegionMatches(i)

\* A room pairs a teknisi with the admin_regional of its area although an
\* admin_regional with a lower id has the region of the teknisi and not the area.
C14_Witness ==
    \E r \in DOMAIN rooms, i, j, k \in DOMAIN users :
        /\ users[i].role = ROLE_TEKNISI
        /\ rooms[r].teknisi_username = users[i].username
        /\ j < k
        /\ j \in RegionMatches(i) \ AreaMatches(i)
        /\ k \in AreaMatches(i)
        /\ rooms[r].admin_regional_username = users[k].username

\* A room pairs a teknisi with an admin_regional of its region, no
\* admin_regional having its area.
C14_WitnessRegion ==
    \E r \in DOMAIN rooms, i \in DOMAIN users, j \in DOMAIN users :
        /\ users[i].role = ROLE_TEKNISI
        /\ rooms[r].teknisi_username = users[i].username
        /\ AreaMatches(i) = {}
        /\ j \in RegionMatches(i)
        /\ rooms[r].admin_regional_username = users[j].username

\* ------------------------------------------------------ claims on history
\* C15: for every room and every member allowed to read it, every list the
\* history query may return is strictly ordered by creation time, oldest
\* first: each row was created strictly before the row that follows it.
C15_HistoryStrictlyOrdered ==
    \A u \in CurrentUsers, r \in DOMAIN rooms, skip \in SkipInputs, limit \in LimitInputs :
        LET resp == get_chat_messages(u, r, skip, limit)
        IN resp.status = 200 =>
             \A data \in resp.results : \A k \in 1..(Len(data) - 1) :
                messages[data[k].id].created_at < messages[data[k + 1].id].created_at

\* What holds instead: no row of a returned list was created after the row
\* that follows it.
HistoryOrdered ==
    \A u \in CurrentUsers, r \in DOMAIN rooms, skip \in SkipInputs, limit \in LimitInputs :
        LET resp == get_chat_messages(u, r, skip, limit)
        IN resp.status = 200 =>
             \A data \in resp.results : \A k \in 1..(Len(data) - 1) :
                messages[data[k].id].created_at <= messages[data[k + 1].id].created_at

\* Two rows of one room with different readings are returned oldest first.
HistoryOrdered_Witness ==
    \E u \in CurrentUsers, r \in DOMAIN rooms :
        LET resp == get_chat_messages(u, r, 0, 50)
        IN /\ resp.status = 200
           /\ \E data \in resp.results :
                 /\ Len(data) = 2
                 /\ messages[data[1].id].created_at < messages[data[2].id].created_at

\* ------------------------------------------------- claims on frame handling
\* C16: a send_message frame without room_id, message or sender_role, and a
\* mark_read frame without room_id or role, is rejected and nothing else
\* happens: chat_rooms and chat_messages are unchanged, the handler stays Open
\* and at receive, and the registry is unchanged.
C16_IncompleteRejected ==
    [][ \A c \in Conns, data \in IncompleteFrames :
          ReceiveIncomplete(c, data) =>
             /\ rooms' = rooms /\ messages' = messages
             /\ handler'[c] = "Open"
             /\ AtReceive(c)'
             /\ active_connections' = active_connections ]_vars

\* What the step does instead: it writes nothing, and the handler is Closed
\* with the entry of its identity removed.
IncompleteCloses ==
    [][ \A c \in Conns, data \in IncompleteFrames :
          ReceiveIncomplete(c, data) =>
             /\ rooms' = rooms /\ messages' = messages /\ inbox' = inbox
             /\ handler'[c] = "Closed"
             /\ active_connections'[owner[c]] = NoConn ]_vars

\* C17: every chat_messages row names the id of a chat_rooms row.
C17_MessageRoomExists ==
    \A i \in DOMAIN messages : messages[i].room_id \in DOMAIN rooms

\* The handler that stored a row for a missing room is still Open.
SenderStaysOpen ==
    [][ \A c \in Conns, data \in SendFrames :
          ReceiveSendMessage(c, data) => handler'[c] = "Open" ]_vars

\* C18: a JSON object whose action is neither send_message nor mark_read is
\* ignored.  An Open handler waiting in receive takes it as no send_message,
\* no mark_read and no error, and the step that takes it changes no table, no
\* registry entry, no channel and no pending broadcast, and leaves the handler
\* Open and waiting in receive.
C18_OtherIgnored ==
    /\ [](\A c \in Conns, data \in OtherFrames :
            (AtReceive(c) /\ transport[c]) =>
               /\ ENABLED ReceiveOther(c, data)
               /\ ~ ENABLED ReceiveIncomplete(c, data)
               /\ ~ ENABLED ReceiveSendMessage(c, data)
               /\ ~ ENABLED ReceiveMarkRead(c, data))
    /\ [][ \A c \in Conns, data \in OtherFrames :
             ReceiveOther(c, data) =>
                /\ UNCHANGED << rooms, messages, users, active_connections, inbox, bcast >>
                /\ handler'[c] = "Open" /\ AtReceive(c)' ]_vars

\* A registered handler waits in receive with its socket open, in a state
\* with a room, a stored message and a delivered event.
C18_Witness ==
    \E c \in Conns :
        /\ AtReceive(c) /\ transport[c]
        /\ active_connections[owner[c]] = c
        /\ rooms # << >> /\ messages # << >>
        /\ inbox[c] # << >>
        /\ \A data \in OtherFrames : ENABLED ReceiveOther(c, data)

\* C19: a mark_read frame causes no event on any channel, whether the room
\* exists or not: the step that handles it, or that fails on it, appends
\* nothing to any channel and starts no broadcast.
C19_MarkReadSilent ==
    [][ \/ inbox' = inbox /\ bcast' = bcast
        \/ \A c \in Conns, data \in Frames :
              Get(data, "action") = "mark_read" =>
                 ~(ReceiveMarkRead(c, data) \/ ReceiveIncomplete(c, data)) ]_vars

\* A message of a room has been read by the other member, and the channels of
\* the two members hold the event of that message and nothing else.
C19_Witness ==
    \E r \in DOMAIN rooms, ks, kr \in Conns :
        /\ Len(messages) = 1
        /\ messages[1].room_id = r /\ messages[1].is_read
        /\ owner[ks] = messages[1].sender_username
        /\ owner[kr] # owner[ks]
        /\ {owner[ks], owner[kr]} = {rooms[r].teknisi_username, rooms[r].admin_regional_username}
        /\ Len(inbox[ks]) = 1 /\ inbox[ks][1].id = 1
        /\ Len(inbox[kr]) = 1 /\ inbox[kr][1].id = 1

\* C20: a fault while a handler processes a frame (text that is no JSON
\* object, a missing key) closes that handler only.  It goes from Open to
\* Closed and the entry of its identity is removed; the entry of every other
\* identity, and the state, socket, channel and pending broadcast of every
\* other handler, are unchanged, and a handler that was waiting for a frame
\* still is.
C20_FaultClosesOnlyOne ==
    [][ \A c \in Conns :
          (ReceiveMalformed(c) \/ \E data \in Frames : ReceiveIncomplete(c, data)) =>
             /\ handler[c] = "Open" /\ handler'[c] = "Closed"
             /\ active_connections'[owner[c]] = NoConn
             /\ \A u \in AllUsers \ {owner[c]} :
                   active_connections'[u] = active_connections[u]
             /\ \A d \in Conns \ {c} :
                   /\ handler'[d] = handler[d]
                   /\ owner'[d] = owner[d]
                   /\ transport'[d] = transport[d]
                   /\ inbox'[d] = inbox[d]
                   /\ bcast'[d] = bcast[d]
                   /\ (AtReceive(d) /\ transport[d]) => (AtReceive(d) /\ transport[d])'
             /\ UNCHANGED << rooms, messages, users >> ]_vars

\* One handler is Closed and its identity has no entry, while the handler of
\* another identity is Open, registered and waiting for its next frame.
C20_Witness ==
    \E c, d \in Conns :
        /\ handler[c] = "Closed"
        /\ AtReceive(d) /\ transport[d]
        /\ owner[d] # owner[c]
        /\ active_connections[owner[c]] = NoConn
        /\ active_connections[owner[d]] = d

\* ------------------------------------------- claims on sending and delivery
\* Every caller allowed to read room r reads row id back with the default page.
InHistory(id, r) ==
    \A u \in CurrentUsers :
        get_chat_messages(u, r, 0, 50).status = 200 =>
            \A data \in get_chat_messages(u, r, 0, 50).results :
                \E k \in 1..Len(data) : data[k].id = id

\* C21: when the sender's socket has closed while its send_message frame is
\* processed, the row is still committed and read back by the history query,
\* the room's counter and last message are updated, nothing is delivered on
\* the sender's own channel (in this step or later), and the other member is
\* still served: at once when it is the teknisi, by the broadcast when it
\* resumes when it is the admin_regional.
C21_SenderClosesMidSend ==
    [][ /\ \A c \in Conns, data \in SendFrames :
              ( /\ ReceiveSendMessage(c, data)
                /\ ~transport[c]
                /\ data.room_id \in DOMAIN rooms )
              => LET id == Len(messages) + 1
                     room == rooms[data.room_id]
                     ev == NewMessageEvent(id, NewChatMessage(owner[c], data))
                 IN /\ messages' = Append(messages, NewChatMessage(owner[c], data))
                    /\ \A n \in 1..MaxMessages : n = id => InHistory(n, data.room_id)'
                    /\ rooms' = RoomsAfterSend(data)
                    /\ inbox'[c] = inbox[c]
                    /\ handler'[c] = "Open"
                    /\ IF Registered(room.teknisi_username)
                       THEN /\ bcast'[c] = [targets |-> << room.admin_regional_username >>,
                                            ev |-> ev,
                                            raises |-> IF RegisteredLive(room.teknisi_username)
                                                       THEN None ELSE room.teknisi_username]
                            /\ RegisteredLive(room.teknisi_username) =>
                                  inbox'[active_connections[room.teknisi_username]]
                                    = Append(inbox[active_connections[room.teknisi_username]], ev)
                       ELSE RegisteredLive(room.admin_regional_username) =>
                              inbox'[active_connections[room.admin_regional_username]]
                                = Append(inbox[active_connections[room.admin_regional_username]], ev)
        /\ \A c \in Conns :
              ( /\ BroadcastResume(c)
                /\ bcast[c].targets # << >>
                /\ RegisteredLive(Head(bcast[c].targets)) )
              => inbox'[active_connections[Head(bcast[c].targets)]]
                   = Append(inbox[active_connections[Head(bcast[c].targets)]], bcast[c].ev)
        /\ \A c \in Conns : ~transport[c] => inbox'[c] = inbox[c] ]_vars

\* The teknisi sent a message of its room and its socket closed before the
\* broadcast: its channel is empty and its entry is gone, the row is stored
\* and counted, and the admin_regional holds the event.
C21_Witness ==
    \E r \in DOMAIN rooms, kt, ka \in Conns :
        /\ Len(messages) = 1 /\ messages[1].room_id = r
        /\ owner[kt] = rooms[r].teknisi_username
        /\ owner[ka] = rooms[r].admin_regional_username
        /\ messages[1].sender_username = owner[kt]
        /\ messages[1].sender_role = ROLE_TEKNISI
        /\ rooms[r].unread_count_admin = 1
        /\ ~transport[kt] /\ inbox[kt] = << >>
        /\ ~Registered(owner[kt])
        /\ Len(inbox[ka]) = 1 /\ inbox[ka][1].id = 1
        /\ InHistory(1, r)

\* Two send_message actions of the teknisi role into room r are in progress at
\* the same time: both rows are committed and both broadcasts are suspended.
ConcurrentSends(r) ==
    /\ Len(messages) = 2
    /\ \A i \in 1..2 : messages[i].room_id = r /\ messages[i].sender_role = ROLE_TEKNISI
                         /\ messages[i].is_read = FALSE
    /\ \E c, d \in Conns :
          /\ c # d
          /\ bcast[c].targets # << >> /\ bcast[c].ev.id = 1
          /\ bcast[d].targets # << >> /\ bcast[d].ev.id = 2

SendsOnExistingRoomCounted ==
    [][ \A r \in DOMAIN rooms :
          LET sendT == \E c \in Conns, data \in SendFrames :
                          /\ ReceiveSendMessage(c, data)
                          /\ data.room_id = r /\ data.sender_role = ROLE_TEKNISI
              sendA == \E c \in Conns, data \in SendFrames :
                          /\ ReceiveSendMessage(c, data)
                          /\ data.room_id = r /\ data.sender_role # ROLE_TEKNISI
              markT == \E c \in Conns, data \in MarkFrames :
                          /\ ReceiveMarkRead(c, data)
                          /\ data.room_id = r /\ data.role = ROLE_TEKNISI
              markA == \E c \in Conns, data \in MarkFrames :
                          /\ ReceiveMarkRead(c, data)
                          /\ data.room_id = r /\ data.role # ROLE_TEKNISI
          IN /\ r \in DOMAIN rooms'
             /\ rooms'[r].unread_count_admin =
                   IF sendT THEN rooms[r].unread_count_admin + 1
                   ELSE IF markA THEN 0 ELSE rooms[r].unread_count_admin
             /\ rooms'[r].unread_count_teknisi =
                   IF sendA THEN rooms[r].unread_count_teknisi + 1
                   ELSE IF markT THEN 0 ELSE rooms[r].unread_count_teknisi ]_vars

\* Two sends of the teknisi role into an existing room overlap, by two
\* connections, and the admin counter holds both increments.
OverlappingSendsCounted ==
    \E r \in DOMAIN rooms :
        ConcurrentSends(r) /\ rooms[r].unread_count_admin = 2

\* C23: a history query answers NotFound when the room does not exist, and
\* Forbidden when the room exists and the caller is a teknisi who is not the
\* room's teknisi or an admin_regional who is not the room's admin_regional;
\* in these cases it returns no messages.
C23_HistoryRefused ==
    \A u \in CurrentUsers, r \in HistoryRoomIds, skip \in SkipInputs, limit \in LimitInputs :
        LET resp == get_chat_messages(u, r, skip, limit)
        IN /\ r \notin DOMAIN rooms => resp.status = 404 /\ resp.results = {}
           /\ ( /\ r \in DOMAIN rooms
                /\ u.role = ROLE_TEKNISI
                /\ u.username # rooms[r].teknisi_username )
              => resp.status = 403 /\ resp.results = {}
           /\ ( /\ r \in DOMAIN rooms
                /\ u.role = ROLE_ADMIN_REGIONAL
                /\ u.username # rooms[r].admin_regional_username )
              => resp.status = 403 /\ resp.results = {}

\* Room 1 holds a message a member reads back; another teknisi and another
\* admin_regional are refused, and room 2 is not found.
C23_Witness ==
    /\ 1 \in DOMAIN rooms /\ 2 \notin DOMAIN rooms
    /\ \E i \in 1..Len(messages) : messages[i].room_id = 1
    /\ \E u \in CurrentUsers :
          /\ get_chat_messages(u, 1, 0, 50).status = 200
          /\ \E data \in get_chat_messages(u, 1, 0, 50).results : Len(data) > 0
    /\ \E u \in CurrentUsers :
          /\ u.role = ROLE_TEKNISI
          /\ get_chat_messages(u, 1, 0, 50).status = 403
    /\ \E u \in CurrentUsers :
          /\ u.role = ROLE_ADMIN_REGIONAL
          /\ get_chat_messages(u, 1, 0, 50).status = 403
    /\ \E u \in CurrentUsers : get_chat_messages(u, 2, 0, 50).status = 404

\* C24: a room for teknisi T is created by POST /chat/rooms only when the
\* caller is T itself or is not a teknisi: no call by a teknisi other than T
\* creates a room of T.
C24_OnlyOwnRoom ==
    [][ \A u \in CurrentUsers, t \in TeknisiInputs :
          ( /\ CreateOrGetChatRoom(u, t)
            /\ Len(rooms') = Len(rooms) + 1
            /\ rooms'[Len(rooms')].teknisi_username = t )
          => ~(u.role = ROLE_TEKNISI /\ u.username # t) ]_vars

\* C25: messages are never deleted, and the id, room, sender, sender role,
\* body and creation time of a message never change.  The only field that
\* changes is the read flag, only in a mark_read step on the message's room,
\* and only from false to true.
C25_MessagesImmutable ==
    [][ /\ Len(messages') >= Len(messages)
        /\ \A i \in 1..Len(messages) :
              /\ \/ messages'[i] = messages[i]
                 \/ /\ messages[i].is_read = FALSE
                    /\ messages'[i] = [messages[i] EXCEPT !.is_read = TRUE]
              /\ messages'[i] # messages[i] =>
                    \E c \in Conns, data \in MarkFrames :
                        /\ ReceiveMarkRead(c, data)
                        /\ data.room_id = messages[i].room_id ]_vars

\* Two messages are stored; the first has been read by a mark_read and is
\* otherwise as it was sent, the second is unread.
C25_Witness ==
    /\ Len(messages) = 2
    /\ messages[1].is_read = TRUE
    /\ messages[2].is_read = FALSE
    /\ messages[1].message \in Bodies
    /\ messages[1].sender_username \in ConnUsers

\* C26: a malformed frame (text that is not JSON, or a JSON value that is not
\* an object) is ignored: the handler that receives it stays Open, the
\* registry is unchanged, and the handler can receive the next frame.
C26_MalformedIgnored ==
    [][ \A c \in Conns :
          ReceiveMalformed(c) =>
             /\ handler'[c] = "Open"
             /\ active_connections' = active_connections
             /\ AtReceive(c)' ]_vars

\* C27: when an identity has connected a second time and the handler of its
\* first, replaced connection then closes (on a disconnect or a fault), the
\* registry entry of the identity, which holds the newer connection, is not
\* removed.
C27_ReconnectKeepsNewer ==
    [][ \A c, d \in Conns :
          ( /\ c < d
            /\ owner[c] = owner[d] /\ owner[c] # None
            /\ handler[d] = "Open" /\ transport[d]
            /\ active_connections[owner[d]] = d
            /\ handler[c] = "Open" /\ handler'[c] = "Closed" )
          => active_connections'[owner[d]] = d ]_vars

\* C28: on every channel, the new_message events of one room have been
\* delivered in the order their messages were committed, that is by
\* increasing id.
C28_DeliveredInCommitOrder ==
    \A c \in Conns : \A m, n \in DOMAIN inbox[c] :
        ( /\ m < n
          /\ inbox[c][m].type = "new_message" /\ inbox[c][n].type = "new_message"
          /\ inbox[c][m].room_id = inbox[c][n].room_id )
        => inbox[c][m].id < inbox[c][n].id

\* C29: every message stored for an existing room has as sender the identity
\* of the connection it came through, that identity is a member of the room,
\* and the stored sender role is the role that member has in the room.
C29_SenderIsMember ==
    [][ \A c \in Conns, data \in SendFrames :
          (ReceiveSendMessage(c, data) /\ data.room_id \in DOMAIN rooms) =>
             LET row == messages'[Len(messages')]
             IN /\ row.sender_username = owner[c]
                /\ row.room_id = data.room_id
                /\ \/ /\ row.sender_username = rooms[row.room_id].teknisi_username
                      /\ row.sender_role = ROLE_TEKNISI
                   \/ /\ row.sender_username = rooms[row.room_id].admin_regional_username
                      /\ row.sender_role = ROLE_ADMIN_REGIONAL ]_vars

\* The part of C29 that holds: the sender of a stored message is the identity
\* of the connection that received the frame.
SenderIsConnection ==
    [][ \A c \in Conns, data \in SendFrames :
          ReceiveSendMessage(c, data) =>
             messages'[Len(messages')].sender_username = owner[c] ]_vars

\* C30: a new_message event of room R is delivered only to a channel that is,
\* when the event is sent, registered under the teknisi_username or the
\* admin_regional_username of R.  Every step that adds to a channel adds one
\* event, and a new_message event is of an existing room and is added to the
\* channel a member of that room is registered with.
C30_OnlyMembersReceive ==
    [][ \A c \in Conns :
          inbox'[c] # inbox[c] =>
             /\ Len(inbox'[c]) = Len(inbox[c]) + 1
             /\ SubSeq(inbox'[c], 1, Len(inbox[c])) = inbox[c]
             /\ LET ev == inbox'[c][Len(inbox'[c])]
                IN ev.type = "new_message" =>
                     /\ ev.room_id \in DOMAIN rooms
                     /\ \E u \in { rooms[ev.room_id].teknisi_username,
                                    rooms[ev.room_id].admin_regional_username } :
                           active_connections[u] = c ]_vars

\* A message of room 1 sent by the non-member eve over a live channel has
\* reached the channel of a member, and nothing has reached eve's channel.
C30_Witness ==
    \E c, d \in Conns :
        /\ owner[c] = "eve" /\ active_connections["eve"] = c /\ transport[c]
        /\ inbox[c] = << >>
        /\ 1 \in DOMAIN rooms
        /\ owner[d] \in {rooms[1].teknisi_username, rooms[1].admin_regional_username}
        /\ \E n \in DOMAIN inbox[d] :
              /\ inbox[d][n].type = "new_message"
              /\ inbox[d][n].room_id = 1
              /\ inbox[d][n].sender_username = "eve"

\* The ids of the messages stored for room r.
MessagesOf(r) == { i \in 1..Len(messages) : messages[i].room_id = r }

\* C31: in every reachable state, the last_message of a room is NULL when no
\* message is stored for the room, and is otherwise the body of the message
\* of the room stored last.
C31_LastMessageIsLatest ==
    \A r \in DOMAIN rooms :
        IF MessagesOf(r) = {}
        THEN rooms[r].last_message = None
        ELSE LET last == CHOOSE i \in MessagesOf(r) : \A j \in MessagesOf(r) : j <= i
             IN rooms[r].last_message = messages[last].message

\* The part of C31 that holds: a send_message into an existing room sets the
\* room's last_message to the body of the row it stores, and no other step
\* changes the last_message of an existing room.
LastMessageFollowsSend ==
    [][ \A r \in DOMAIN rooms :
          IF \E c \in Conns, data \in SendFrames :
                ReceiveSendMessage(c, data) /\ data.room_id = r
          THEN rooms'[r].last_message = messages'[Len(messages')].message
          ELSE rooms'[r].last_message = rooms[r].last_message ]_vars

\* What a frame naming room r may change: nothing in the other rooms, no
\* message of another room, and in the registry only entries of members of r
\* whose websocket has failed, which are removed.
FrameOf(r) ==
    /\ DOMAIN rooms' = DOMAIN rooms
    /\ \A q \in DOMAIN rooms \ {r} : rooms'[q] = rooms[q]
    /\ \A i \in 1..Len(messages) :
          messages[i].room_id # r => messages'[i] = messages[i]
    /\ \A u \in AllUsers :
          active_connections'[u] # active_connections[u] =>
             /\ active_connections'[u] = NoConn
             /\ ~transport[active_connections[u]]
             /\ r \in DOMAIN rooms
             /\ u \in {rooms[r].teknisi_username, rooms[r].admin_regional_username}

\* C32: a send_message or mark_read frame naming room R, the rest of the
\* broadcast of a send_message included, leaves the counters and last_message
\* of every other room and every message of every other room unchanged, and
\* changes the registry only by removing entries whose delivery failed;
\* mark_read leaves the registry unchanged.
C32_OtherRoomsUntouched ==
    [][ /\ \A c \in Conns, data \in SendFrames :
              ReceiveSendMessage(c, data) => FrameOf(data.room_id)
        /\ \A c \in Conns :
              BroadcastResume(c) =>
                 FrameOf(bcast[c].ev.room_id) /\ UNCHANGED << rooms, messages >>
        /\ \A c \in Conns, data \in MarkFrames :
              ReceiveMarkRead(c, data) =>
                 FrameOf(data.room_id) /\ UNCHANGED active_connections ]_vars

\* The part of C32 that does not depend on which websocket the removed entry
\* held: other rooms and their messages are untouched, and the registry only
\* loses entries, of members of the room named, at the resumption of a send to
\* that member that raised.
OtherRoomsUntouchedByName ==
    [][ /\ \A c \in Conns, data \in SendFrames :
              ReceiveSendMessage(c, data) =>
                 /\ DOMAIN rooms' = DOMAIN rooms
                 /\ \A q \in DOMAIN rooms \ {data.room_id} : rooms'[q] = rooms[q]
                 /\ \A i \in 1..Len(messages) : messages'[i] = messages[i]
                 /\ active_connections' = active_connections
        /\ \A c \in Conns :
              BroadcastResume(c) =>
                 /\ UNCHANGED << rooms, messages >>
                 /\ \A u \in AllUsers :
                       active_connections'[u] # active_connections[u] =>
                          /\ active_connections'[u] = NoConn
                          /\ u = bcast[c].raises
                          /\ u \in { rooms[bcast[c].ev.room_id].teknisi_username,
                                     rooms[bcast[c].ev.room_id].admin_regional_username }
        /\ \A c \in Conns, data \in MarkFrames :
              ReceiveMarkRead(c, data) =>
                 /\ DOMAIN rooms' = DOMAIN rooms
                 /\ \A q \in DOMAIN rooms \ {data.room_id} : rooms'[q] = rooms[q]
                 /\ \A i \in 1..Len(messages) :
                       messages[i].room_id # data.room_id => messages'[i] = messages[i]
                 /\ active_connections' = active_connections ]_vars

\* Room 2 is as it was (one unread message of tek2, admin counter 1) after a
\* message was sent into room 1 and read there, the admin counter of room 1
\* was raised and zeroed again, and the entry of a member of room 1 whose
\* socket had closed was removed while its handler is still open.
C32_Witness ==
    /\ Len(rooms) = 2 /\ Len(messages) = 2
    /\ messages[1].room_id = 2 /\ messages[1].is_read = FALSE
    /\ rooms[2].unread_count_admin = 1 /\ rooms[2].last_message = "a"
    /\ messages[2].room_id = 1 /\ messages[2].is_read = TRUE
    /\ messages[2].sender_role = ROLE_TEKNISI
    /\ rooms[1].unread_count_admin = 0
    /\ \E c \in Conns :
          /\ handler[c] = "Open" /\ ~transport[c]
          /\ owner[c] \in {rooms[1].teknisi_username, rooms[1].admin_regional_username}
          /\ ~Registered(owner[c])

\* The ids of the messages of room r, oldest first (ids grow with each insert).
RECURSIVE Ascending(_)
Ascending(ids) ==
    IF ids = {} THEN << >>
    ELSE LET top == CHOOSE i \in ids : \A j \in ids : j <= i
         IN Append(Ascending(ids \ {top}), top)

\* The page the claim describes: the messages of room r ranked skip + 1
\* through skip + limit counted from the newest, oldest first.
ExpectedPage(r, skip, limit) ==
    LET asc == Ascending(MessagesOf(r))
        n == Len(asc)
        lo == IF n - skip - limit + 1 > 1 THEN n - skip - limit + 1 ELSE 1
    IN SubSeq(asc, lo, n - skip)

\* C33: for every caller allowed to read the room, the history query with
\* skip s and limit l returns exactly the messages ranked s + 1 through s + l
\* counted from the newest message, oldest first, and the empty list when s
\* is at least the number of messages of the room.
C33_PageIsExact ==
    \A u \in CurrentUsers, r \in DOMAIN rooms, skip \in SkipInputs, limit \in LimitInputs :
        LET resp == get_chat_messages(u, r, skip, limit)
        IN resp.status = 200 =>
             \A data \in resp.results :
                /\ Len(data) = Len(ExpectedPage(r, skip, limit))
                /\ \A k \in 1..Len(data) : data[k].id = ExpectedPage(r, skip, limit)[k]
                /\ skip >= Cardinality(MessagesOf(r)) => data = << >>

\* The part of C33 that holds: when the messages of the room have pairwise
\* different created_at readings, the page is exactly the one described.
PageIsExactWhenDistinct ==
    \A u \in CurrentUsers, r \in DOMAIN rooms, skip \in SkipInputs, limit \in LimitInputs :
        LET resp == get_chat_messages(u, r, skip, limit)
        IN ( /\ resp.status = 200
             /\ \A i, j \in MessagesOf(r) :
                   i # j => messages[i].created_at # messages[j].created_at )
           => /\ resp.results # {}
              /\ \A data \in resp.results :
                    /\ Len(data) = Len(ExpectedPage(r, skip, limit))
                    /\ \A k \in 1..Len(data) : data[k].id = ExpectedPage(r, skip, limit)[k]
                    /\ skip >= Cardinality(MessagesOf(r)) => data = << >>
====
